---- MODULE Spec2Model ----
(***************************************************************************)
(* Model of the blackjack_ui graph translation (graph_interop.rs) and of   *)
(* the per-frame orchestration (application_context.rs).                   *)
(*                                                                         *)
(* Rust values are modelled as follows:                                    *)
(*   Option<T>      None / Some(x)                                         *)
(*   Result<T>      [status |-> "Ok", ...] / [status |-> "Err", error]     *)
(*   a panic        [status |-> "Panic", error]  (indexing a SecondaryMap  *)
(*                  or the graph with a key it does not hold unwinds out   *)
(*                  of the caller instead of returning an Err)             *)
(***************************************************************************)
EXTENDS Integers, Sequences, FiniteSets, TLC

\* ------------------------------------------------------------------ bounds

\* Largest number of node slots of the UI graph (UI node ids are 1..MaxNodes).
MaxNodes ==
    2

\* Largest number of connections of a UI graph.
MaxConns ==
    1

\* Largest number of external parameter descriptors of a compiled program.
MaxDefs ==
    2

\* Largest number of vertices and of faces of a mesh, and of cells of a
\* height map, the renderer is handed.
MaxVerts ==
    3

MaxFaces ==
    1

MaxCells ==
    1

\* ------------------------------------------------------------------ values

None ==
    [some |-> FALSE]

Some(x) ==
    [some |-> TRUE, val |-> x]

\* The keys of a SlotMap / SecondaryMap are visited in slot order.
RECURSIVE SortedSeq(_)
SortedSeq(S) ==
    IF S = {} THEN <<>>
    ELSE LET m == CHOOSE x \in S : \A y \in S : x <= y
         IN <<m>> \o SortedSeq(S \ {m})

\* SecondaryMap::insert
MapInsert(m, k, v) ==
    [x \in DOMAIN m \cup {k} |-> IF x = k THEN v ELSE m[x]]

EmptyMap ==
    [x \in {} |-> 0]

\* --------------------------------------------------------------- BjkGraph
\* The compiler graph of blackjack_engine.  Nodes are addressed by the id
\* add_node returns, ports by (node, name).

BjkGraph_new ==
    [nodes |-> <<>>, connections |-> {}]

\* The id of the node add_node creates: a fresh graph hands out 1, 2, ...
BjkNextId(bjk) ==
    Len(bjk.nodes) + 1

add_node(bjk, op_name, returns) ==
    [bjk EXCEPT !.nodes = Append(@, [op_name |-> op_name, returns |-> returns,
                                      inputs |-> <<>>, outputs |-> <<>>])]

HasPort(ports, name) ==
    \E k \in 1..Len(ports) : ports[k].name = name

PortType(ports, name) ==
    LET k == CHOOSE j \in 1..Len(ports) : ports[j].name = name
    IN ports[k].typ

\* Registers an input port; a second port of the same name is refused.
add_input(bjk, id, name, typ) ==
    IF id \notin 1..Len(bjk.nodes) \/ HasPort(bjk.nodes[id].inputs, name)
    THEN [status |-> "Err", error |-> "GraphConstructionError"]
    ELSE [status |-> "Ok",
          graph |-> [bjk EXCEPT !.nodes[id].inputs = Append(@, [name |-> name, typ |-> typ])]]

add_output(bjk, id, name, typ) ==
    IF id \notin 1..Len(bjk.nodes) \/ HasPort(bjk.nodes[id].outputs, name)
    THEN [status |-> "Err", error |-> "GraphConstructionError"]
    ELSE [status |-> "Ok",
          graph |-> [bjk EXCEPT !.nodes[id].outputs = Append(@, [name |-> name, typ |-> typ])]]

\* Registers a connection; both ports must be registered and of one type.
add_connection(bjk, src_node, src_param, dst_node, dst_param) ==
    IF /\ src_node \in 1..Len(bjk.nodes)
       /\ dst_node \in 1..Len(bjk.nodes)
       /\ HasPort(bjk.nodes[src_node].outputs, src_param)
       /\ HasPort(bjk.nodes[dst_node].inputs, dst_param)
       /\ PortType(bjk.nodes[src_node].outputs, src_param)
            = PortType(bjk.nodes[dst_node].inputs, dst_param)
    THEN [status |-> "Ok",
          graph |-> [bjk EXCEPT !.connections =
                        @ \cup {<<src_node, src_param, dst_node, dst_param>>}]]
    ELSE [status |-> "Err", error |-> "GraphConstructionError"]

\* ------------------------------------------------- ui_graph_to_blackjack_graph
\* A UI graph g is a record
\*   nodes       : [node id -> [op_name, returns, inputs, outputs]], inputs and
\*                 outputs being the node's Vec<(name, socket id)>
\*   inputs      : [input id  -> [typ, node, value]]
\*   outputs     : [output id -> [typ, node]]
\*   connections : [input id  -> output id]

\* State of the translation: the locals of lines 39-43, its status, and the
\* sequence of calls made on bjk_graph so far.
TranslationStart ==
    [status |-> "Ok", error |-> "",
     bjk_graph |-> BjkGraph_new,
     mapping |-> EmptyMap, rev_mapping |-> EmptyMap,
     input_names |-> EmptyMap, output_names |-> EmptyMap,
     calls |-> <<>>]

Fail(st, status, error) ==
    [st EXCEPT !.status = status, !.error = error]

\* mapping.insert(node_id, bjk_id); rev_mapping.insert(bjk_id, node_id);
InsertMapping_SameKey(st, node_id, bjk_id) ==
    [st EXCEPT !.mapping = MapInsert(@, node_id, bjk_id),
               !.rev_mapping = MapInsert(@, node_id, bjk_id)]

InsertMapping(st, node_id, bjk_id) ==
    [st EXCEPT !.mapping = MapInsert(@, node_id, bjk_id),
               !.rev_mapping = MapInsert(@, bjk_id, node_id)]

\* for (input_name, input_id) in &node.inputs { ... }
RECURSIVE InputPass(_, _, _, _)
InputPass(g, st, bjk_id, ins) ==
    IF st.status # "Ok" \/ ins = <<>> THEN st
    ELSE LET input_name == Head(ins)[1]
             input_id == Head(ins)[2]
         IN IF input_id \notin DOMAIN g.inputs
            THEN Fail(st, "Panic", "graph.inputs[input_id]")
            ELSE LET r == add_input(st.bjk_graph, bjk_id, input_name, g.inputs[input_id].typ)
                     st1 == [st EXCEPT !.calls = Append(@, "add_input")]
                 IN IF r.status # "Ok"
                    THEN Fail(st1, "Err", r.error)
                    ELSE InputPass(g,
                           [st1 EXCEPT !.bjk_graph = r.graph,
                                       !.input_names = MapInsert(@, input_id, input_name)],
                           bjk_id, Tail(ins))

\* for (output_name, output_id) in &node.outputs { ... }
RECURSIVE OutputPass(_, _, _, _)
OutputPass(g, st, bjk_id, outs) ==
    IF st.status # "Ok" \/ outs = <<>> THEN st
    ELSE LET output_name == Head(outs)[1]
             output_id == Head(outs)[2]
         IN IF output_id \notin DOMAIN g.outputs
            THEN Fail(st, "Panic", "graph.outputs[output_id]")
            ELSE LET r == add_output(st.bjk_graph, bjk_id, output_name, g.outputs[output_id].typ)
                     st1 == [st EXCEPT !.calls = Append(@, "add_output")]
                 IN IF r.status # "Ok"
                    THEN Fail(st1, "Err", r.error)
                    ELSE OutputPass(g,
                           [st1 EXCEPT !.bjk_graph = r.graph,
                                       !.output_names = MapInsert(@, output_id, output_name)],
                           bjk_id, Tail(outs))

\* for (node_id, node) in &graph.nodes { ... }
RECURSIVE NodePass(_, _, _)
NodePass(g, st, node_ids) ==
    IF st.status # "Ok" \/ node_ids = <<>> THEN st
    ELSE LET node_id == Head(node_ids)
             node == g.nodes[node_id]
             bjk_id == BjkNextId(st.bjk_graph)
             st1 == [st EXCEPT !.bjk_graph = add_node(@, node.op_name, node.returns),
                               !.calls = Append(@, "add_node")]
             st2 == InsertMapping(st1, node_id, bjk_id)
             st3 == InputPass(g, st2, bjk_id, node.inputs)
             st4 == OutputPass(g, st3, bjk_id, node.outputs)
         IN NodePass(g, st4, Tail(node_ids))

\* The body of the connection loop, for one (input, output) pair.
ConnectOne_SkipsRegistration(g, st, input, output) ==
    st

ConnectOne(g, st, input, output) ==
    IF input \notin DOMAIN st.input_names
    THEN Fail(st, "Panic", "input_names[input]")
    ELSE IF output \notin DOMAIN st.output_names
    THEN Fail(st, "Panic", "output_names[output]")
    ELSE IF input \notin DOMAIN g.inputs \/ g.inputs[input].node \notin DOMAIN st.mapping
    THEN Fail(st, "Panic", "mapping[graph[input].node]")
    ELSE IF output \notin DOMAIN g.outputs \/ g.outputs[output].node \notin DOMAIN st.mapping
    THEN Fail(st, "Panic", "mapping[graph[output].node]")
    ELSE LET input_name == st.input_names[input]
             output_name == st.output_names[output]
             input_node_id == st.mapping[g.inputs[input].node]
             output_node_id == st.mapping[g.outputs[output].node]
             r == add_connection(st.bjk_graph, output_node_id, output_name,
                                 input_node_id, input_name)
             st1 == [st EXCEPT !.calls = Append(@, "add_connection")]
         IN IF r.status # "Ok"
            THEN Fail(st1, "Err", r.error)
            ELSE [st1 EXCEPT !.bjk_graph = r.graph]

\* for (input, output) in &graph.connections { ... }
RECURSIVE ConnectionPass(_, _, _)
ConnectionPass(g, st, conn_inputs) ==
    IF st.status # "Ok" \/ conn_inputs = <<>> THEN st
    ELSE ConnectionPass(g,
            ConnectOne(g, st, Head(conn_inputs), g.connections[Head(conn_inputs)]),
            Tail(conn_inputs))

\* What the caller gets: Ok((bjk_graph, NodeMapping(mapping, rev_mapping))), an
\* Err, or no value at all (the panic unwinds through the caller).
TranslationResult(st) ==
    IF st.status = "Ok"
    THEN [status |-> "Ok", calls |-> st.calls,
          bjk_graph |-> st.bjk_graph, mapping |-> <<st.mapping, st.rev_mapping>>]
    ELSE [status |-> st.status, error |-> st.error, calls |-> st.calls]

ui_graph_to_blackjack_graph_ConnectsEarly(g) ==
    LET node_ids == SortedSeq(DOMAIN g.nodes)
        first_done == NodePass(g, TranslationStart,
                               IF node_ids = <<>> THEN <<>> ELSE <<Head(node_ids)>>)
        conns_done == ConnectionPass(g, first_done, SortedSeq(DOMAIN g.connections))
        nodes_done == NodePass(g, conns_done,
                               IF node_ids = <<>> THEN <<>> ELSE Tail(node_ids))
    IN TranslationResult(nodes_done)

ui_graph_to_blackjack_graph(g) ==
    LET nodes_done == NodePass(g, TranslationStart, SortedSeq(DOMAIN g.nodes))
        conns_done == ConnectionPass(g, nodes_done, SortedSeq(DOMAIN g.connections))
    IN TranslationResult(conns_done)

\* impl Index<NodeId> for NodeMapping / impl Index<BjkNodeId> for NodeMapping
MappingHasNode(mapping, node_id) ==
    node_id \in DOMAIN mapping[1]

MappingHasBjk(mapping, bjk_id) ==
    bjk_id \in DOMAIN mapping[2]

MappingToBjk(mapping, node_id) ==
    mapping[1][node_id]

MappingToNode(mapping, bjk_id) ==
    mapping[2][bjk_id]

\* ------------------------------------------------------------- UI graphs
\* The UI graphs the model is run on.  Node n of the editor owns the socket
\* ids 10*n + k; a node is built from one of the Shapes below.

NodeIds ==
    1..MaxNodes

PortSlots ==
    {1, 2}

SocketIds ==
    {10 * n + k : n \in NodeIds, k \in PortSlots}

Port(name, typ) ==
    [name |-> name, typ |-> typ]

Shapes ==
    { [op_name |-> "cube", returns |-> Some("out_mesh"),
       inputs |-> <<Port("size", "scalar")>>,
       outputs |-> <<Port("out_mesh", "mesh")>>],
      [op_name |-> "bevel", returns |-> Some("out_mesh"),
       inputs |-> <<Port("in_mesh", "mesh"), Port("amount", "scalar")>>,
       outputs |-> <<Port("out_mesh", "mesh")>>],
      [op_name |-> "dup_in", returns |-> Some("out_mesh"),
       inputs |-> <<Port("size", "scalar"), Port("size", "scalar")>>,
       outputs |-> <<Port("out_mesh", "mesh")>>],
      [op_name |-> "dup_out", returns |-> None,
       inputs |-> <<>>,
       outputs |-> <<Port("out_mesh", "mesh"), Port("out_mesh", "mesh")>>] }

SocketNode(id) ==
    id \div 10

SocketSlot(id) ==
    id % 10

\* The widget value held by input socket id.
WidgetValue(id) ==
    100 + id

MkGraph(shape_of, conns) ==
    LET ns == DOMAIN shape_of
        in_ids == {10 * n + k : n \in ns, k \in PortSlots} \cap
                  {id \in SocketIds : SocketNode(id) \in ns
                       /\ SocketSlot(id) <= Len(shape_of[SocketNode(id)].inputs)}
        out_ids == {id \in SocketIds : SocketNode(id) \in ns
                       /\ SocketSlot(id) <= Len(shape_of[SocketNode(id)].outputs)}
    IN [nodes |-> [n \in ns |->
                     [op_name |-> shape_of[n].op_name,
                      returns |-> shape_of[n].returns,
                      inputs |-> [k \in 1..Len(shape_of[n].inputs) |->
                                    <<shape_of[n].inputs[k].name, 10 * n + k>>],
                      outputs |-> [k \in 1..Len(shape_of[n].outputs) |->
                                    <<shape_of[n].outputs[k].name, 10 * n + k>>]]],
        inputs |-> [id \in in_ids |->
                     [typ |-> shape_of[SocketNode(id)].inputs[SocketSlot(id)].typ,
                      node |-> SocketNode(id),
                      value |-> WidgetValue(id)]],
        outputs |-> [id \in out_ids |->
                     [typ |-> shape_of[SocketNode(id)].outputs[SocketSlot(id)].typ,
                      node |-> SocketNode(id)]],
        connections |-> conns]

ConnSets ==
    UNION {[D -> SocketIds] : D \in {E \in SUBSET SocketIds : Cardinality(E) <= MaxConns}}

GraphSet ==
    {MkGraph(sh, c) : sh \in UNION {[N -> Shapes] : N \in SUBSET NodeIds}, c \in ConnSets}

\* --------------------------------------------------- extract_graph_params
\* An external parameter descriptor is [node_id, param_name, addr]; the result
\* table maps addr to the widget value.

\* node.get_input(name): the first socket of that name.
get_input(node, name) ==
    IF \E k \in 1..Len(node.inputs) : node.inputs[k][1] = name
    THEN LET k == CHOOSE j \in 1..Len(node.inputs) :
                    /\ node.inputs[j][1] = name
                    /\ \A i \in 1..(j - 1) : node.inputs[i][1] # name
         IN [status |-> "Ok", input |-> node.inputs[k][2]]
    ELSE [status |-> "Err", error |-> "ParameterResolutionError"]

\* The body of the loop over program.external_parameters, for one descriptor.
ExtractOne_KeepsFirst(g, mapping, st, external_def) ==
    IF ~MappingHasBjk(mapping, external_def.node_id)
    THEN Fail(st, "Panic", "mapping[external_def.node_id]")
    ELSE LET node == MappingToNode(mapping, external_def.node_id)
         IN IF node \notin DOMAIN g.nodes
            THEN Fail(st, "Panic", "graph[node]")
            ELSE LET r == get_input(g.nodes[node], external_def.param_name)
                 IN IF r.status # "Ok"
                    THEN Fail(st, "Err", r.error)
                    ELSE IF r.input \notin DOMAIN g.inputs
                    THEN Fail(st, "Panic", "graph[input]")
                    ELSE IF external_def.addr \in DOMAIN st.params
                    THEN st
                    ELSE [st EXCEPT !.params =
                             MapInsert(@, external_def.addr, g.inputs[r.input].value)]

ExtractOne(g, mapping, st, external_def) ==
    IF ~MappingHasBjk(mapping, external_def.node_id)
    THEN Fail(st, "Panic", "mapping[external_def.node_id]")
    ELSE LET node == MappingToNode(mapping, external_def.node_id)
         IN IF node \notin DOMAIN g.nodes
            THEN Fail(st, "Panic", "graph[node]")
            ELSE LET r == get_input(g.nodes[node], external_def.param_name)
                 IN IF r.status # "Ok"
                    THEN Fail(st, "Err", r.error)
                    ELSE IF r.input \notin DOMAIN g.inputs
                    THEN Fail(st, "Panic", "graph[input]")
                    ELSE [st EXCEPT !.params =
                             MapInsert(@, external_def.addr, g.inputs[r.input].value)]

RECURSIVE ExtractPass(_, _, _, _)
ExtractPass(g, mapping, st, defs) ==
    IF st.status # "Ok" \/ defs = <<>> THEN st
    ELSE ExtractPass(g, mapping, ExtractOne(g, mapping, st, Head(defs)), Tail(defs))

extract_graph_params(g, mapping, program) ==
    LET st == ExtractPass(g, mapping,
                          [status |-> "Ok", error |-> "", params |-> EmptyMap],
                          program.external_parameters)
    IN IF st.status = "Ok"
       THEN [status |-> "Ok", params |-> st.params]
       ELSE [status |-> st.status, error |-> st.error]

\* ------------------------------------------------- compiler and runtime
\* compile_graph and the Lua runtime are opaque to the orchestrator: whether
\* they succeed is chosen by the environment (the outcome arguments below).

\* The inputs of node id that no connection feeds, as descriptors.
RECURSIVE NodeExternals(_, _, _)
NodeExternals(bjk, id, k) ==
    IF k > Len(bjk.nodes[id].inputs) THEN <<>>
    ELSE LET name == bjk.nodes[id].inputs[k].name
             wired == \E c \in bjk.connections : c[3] = id /\ c[4] = name
         IN (IF wired THEN <<>>
             ELSE <<[node_id |-> id, param_name |-> name, addr |-> <<id, name>>]>>)
            \o NodeExternals(bjk, id, k + 1)

RECURSIVE GraphExternals(_, _)
GraphExternals(bjk, id) ==
    IF id > Len(bjk.nodes) THEN <<>>
    ELSE NodeExternals(bjk, id, 1) \o GraphExternals(bjk, id + 1)

\* The text of the program compiled for final_node.
ProgramText(final_node, is_side_effect) ==
    <<"lua", final_node, is_side_effect>>

CompileOutcomes ==
    {"compiled", "CompileError", "stale_descriptor"}

\* compile_graph(&bjk_graph, final_node, is_side_effect).  "stale_descriptor"
\* is a program one of whose descriptors names an input the node lacks.
compile_graph(bjk, final_node, is_side_effect, outcome) ==
    IF outcome = "CompileError"
    THEN [status |-> "Err", error |-> "CompileError"]
    ELSE [status |-> "Ok",
          program |->
            [lua_program |-> ProgramText(final_node, is_side_effect),
             external_parameters |->
                GraphExternals(bjk, 1) \o
                (IF outcome = "stale_descriptor"
                 THEN <<[node_id |-> final_node, param_name |-> "removed",
                         addr |-> <<final_node, "removed">>]>>
                 ELSE <<>>)]]

\* ---------------------------------------------------------- renderables
\* RenderableThing::HalfEdgeMesh(mesh) and RenderableThing::HeightMap(map).
\* A mesh is described by what decides the buffers: its gen_config, its
\* vertex and face counts, and whether its connectivity is sound (buffer
\* generation fails on a mesh whose connectivity is broken).

HalfEdgeMesh(smooth_normals, verts, faces, sound) ==
    [kind |-> "HalfEdgeMesh", smooth_normals |-> smooth_normals,
     verts |-> verts, faces |-> faces, sound |-> sound]

HeightMap(cells) ==
    [kind |-> "HeightMap", cells |-> cells]

generate_triangle_buffers_smooth(mesh, force) ==
    IF ~mesh.sound THEN [status |-> "Err", error |-> "MeshError"]
    ELSE [status |-> "Ok", positions |-> 3 * mesh.faces, normals |-> "smooth"]

generate_triangle_buffers_flat(mesh, force) ==
    IF ~mesh.sound THEN [status |-> "Err", error |-> "MeshError"]
    ELSE [status |-> "Ok", positions |-> 3 * mesh.faces, normals |-> "flat"]

generate_face_overlay_buffers(mesh) ==
    [positions |-> 3 * mesh.faces]

generate_halfedge_arrow_buffers(mesh) ==
    IF ~mesh.sound THEN [status |-> "Err", error |-> "MeshError"]
    ELSE [status |-> "Ok", positions |-> 6 * mesh.faces, style |-> "arrows"]

generate_line_buffers(mesh) ==
    IF ~mesh.sound THEN [status |-> "Err", error |-> "MeshError"]
    ELSE [status |-> "Ok", positions |-> 2 * 3 * mesh.faces, style |-> "lines"]

generate_point_buffers(mesh) ==
    [positions |-> mesh.verts]

heightmap_generate_triangle_buffers(heightmap) ==
    [positions |-> 6 * heightmap.cells, normals |-> "smooth"]

FaceDrawModes ==
    {"Real", "Flat", "Smooth", "None"}

EdgeDrawModes ==
    {"HalfEdge", "FullEdge", "None"}

Viewport3dSettings ==
    [face_mode : FaceDrawModes, edge_mode : EdgeDrawModes]

\* ------------------------------------------------ build_and_render_mesh
\* The result is the Result<()>, the buffer sets generated (kind and number
\* of positions) and the uploads made on render_ctx, each in order.

\* // Base mesh
BaseMeshStep_IgnoresNone(mesh, face_mode) ==
    LET gen == CASE face_mode = "Flat" -> generate_triangle_buffers_flat(mesh, TRUE)
                 [] face_mode = "Smooth" -> generate_triangle_buffers_smooth(mesh, TRUE)
                 [] OTHER -> IF mesh.smooth_normals
                             THEN generate_triangle_buffers_smooth(mesh, FALSE)
                             ELSE generate_triangle_buffers_flat(mesh, FALSE)
    IN IF gen.status = "Err"
       THEN [status |-> "Err", error |-> gen.error, generated |-> <<>>, uploads |-> <<>>]
       ELSE [status |-> "Ok",
             generated |-> << <<"triangle", gen.positions>> >>,
             uploads |-> IF gen.positions # 0
                         THEN << <<"add_base_mesh", gen.positions, gen.normals>> >>
                         ELSE <<>>]

BaseMeshStep(mesh, face_mode) ==
    LET gen == CASE face_mode = "Real" ->
                      IF mesh.smooth_normals
                      THEN generate_triangle_buffers_smooth(mesh, FALSE)
                      ELSE generate_triangle_buffers_flat(mesh, FALSE)
                 [] face_mode = "Flat" -> generate_triangle_buffers_flat(mesh, TRUE)
                 [] face_mode = "Smooth" -> generate_triangle_buffers_smooth(mesh, TRUE)
                 [] OTHER -> [status |-> "Skip"]
    IN IF gen.status = "Err"
       THEN [status |-> "Err", error |-> gen.error, generated |-> <<>>, uploads |-> <<>>]
       ELSE IF gen.status = "Ok"
       THEN [status |-> "Ok",
             generated |-> << <<"triangle", gen.positions>> >>,
             uploads |-> IF gen.positions # 0
                         THEN << <<"add_base_mesh", gen.positions, gen.normals>> >>
                         ELSE <<>>]
       ELSE [status |-> "Ok", generated |-> <<>>, uploads |-> <<>>]

\* // Face overlays
OverlayStep_Unguarded(mesh) ==
    LET buf == generate_face_overlay_buffers(mesh)
    IN [generated |-> << <<"overlay", buf.positions>> >>,
        uploads |-> << <<"add_overlay_mesh", buf.positions, "colors">> >>]

OverlayStep(mesh) ==
    LET buf == generate_face_overlay_buffers(mesh)
    IN [generated |-> << <<"overlay", buf.positions>> >>,
        uploads |-> IF buf.positions # 0
                    THEN << <<"add_overlay_mesh", buf.positions, "colors">> >>
                    ELSE <<>>]

\* // Edges
EdgeStep(mesh, edge_mode) ==
    LET gen == CASE edge_mode = "HalfEdge" -> generate_halfedge_arrow_buffers(mesh)
                 [] edge_mode = "FullEdge" -> generate_line_buffers(mesh)
                 [] OTHER -> [status |-> "Skip"]
    IN IF gen.status = "Err"
       THEN [status |-> "Err", error |-> gen.error, generated |-> <<>>, uploads |-> <<>>]
       ELSE IF gen.status = "Ok"
       THEN [status |-> "Ok",
             generated |-> << <<"line", gen.positions>> >>,
             uploads |-> IF gen.positions # 0
                         THEN << <<"add_wireframe", gen.positions, gen.style>> >>
                         ELSE <<>>]
       ELSE [status |-> "Ok", generated |-> <<>>, uploads |-> <<>>]

\* // Vertices
PointStep(mesh) ==
    LET buf == generate_point_buffers(mesh)
    IN [generated |-> << <<"point", buf.positions>> >>,
        uploads |-> IF buf.positions # 0
                    THEN << <<"add_point_cloud", buf.positions, "points">> >>
                    ELSE <<>>]

\* Some(RenderableThing::HalfEdgeMesh(mesh)) => { ... }: a failing generator
\* returns its error at once (the ? operator), leaving the later steps out.
HalfEdgeMeshArm(mesh, viewport_settings) ==
    LET base == BaseMeshStep(mesh, viewport_settings.face_mode)
        overlay == OverlayStep(mesh)
        edges == EdgeStep(mesh, viewport_settings.edge_mode)
        points == PointStep(mesh)
    IN IF base.status = "Err"
       THEN [status |-> "Err", error |-> base.error,
             generated |-> <<>>, uploads |-> <<>>]
       ELSE IF edges.status = "Err"
       THEN [status |-> "Err", error |-> edges.error,
             generated |-> base.generated \o overlay.generated,
             uploads |-> base.uploads \o overlay.uploads]
       ELSE [status |-> "Ok",
             generated |-> base.generated \o overlay.generated
                           \o edges.generated \o points.generated,
             uploads |-> base.uploads \o overlay.uploads
                         \o edges.uploads \o points.uploads]

\* Some(RenderableThing::HeightMap(heightmap)) => { ... }
HeightMapArm(heightmap) ==
    LET buf == heightmap_generate_triangle_buffers(heightmap)
    IN [status |-> "Ok",
        generated |-> << <<"triangle", buf.positions>> >>,
        uploads |-> IF buf.positions # 0
                    THEN << <<"add_base_mesh", buf.positions, buf.normals>> >>
                    ELSE <<>>]

build_and_render_mesh_GatesHeightMap(thing, viewport_settings) ==
    IF ~thing.some THEN [status |-> "Ok", generated |-> <<>>, uploads |-> <<>>]
    ELSE IF thing.val.kind = "HalfEdgeMesh"
    THEN HalfEdgeMeshArm(thing.val, viewport_settings)
    ELSE IF viewport_settings.face_mode = "None"
    THEN [status |-> "Ok", generated |-> <<>>, uploads |-> <<>>]
    ELSE HeightMapArm(thing.val)

build_and_render_mesh(thing, viewport_settings) ==
    IF ~thing.some THEN [status |-> "Ok", generated |-> <<>>, uploads |-> <<>>]
    ELSE IF thing.val.kind = "HalfEdgeMesh"
    THEN HalfEdgeMeshArm(thing.val, viewport_settings)
    ELSE HeightMapArm(thing.val)

\* ------------------------------------------------------ ApplicationContext

\* compile_program(editor_state, node, is_side_effect); calls lists the
\* stages entered, in order.
compile_program_IgnoresMode(g, node, is_side_effect, compile_outcome) ==
    LET c1 == << <<"ui_graph_to_blackjack_graph">> >>
        Extracted(program, calls, e) ==
            IF e.status # "Ok"
            THEN [status |-> e.status, error |-> e.error, calls |-> calls]
            ELSE [status |-> "Ok", program |-> program, params |-> e.params,
                  calls |-> calls]
        Compiled(t, final_node, c) ==
            IF c.status # "Ok"
            THEN [status |-> "Err", error |-> c.error,
                  calls |-> Append(c1, <<"compile_graph", final_node, FALSE>>)]
            ELSE Extracted(c.program,
                           c1 \o << <<"compile_graph", final_node, FALSE>>,
                                    <<"extract_graph_params">> >>,
                           extract_graph_params(g, t.mapping, c.program))
        Translated(t) ==
            IF t.status # "Ok"
            THEN [status |-> t.status, error |-> t.error, calls |-> c1]
            ELSE IF ~MappingHasNode(t.mapping, node)
            THEN [status |-> "Panic", error |-> "mapping[node]", calls |-> c1]
            ELSE Compiled(t, MappingToBjk(t.mapping, node),
                          compile_graph(t.bjk_graph, MappingToBjk(t.mapping, node),
                                        FALSE, compile_outcome))
    IN Translated(ui_graph_to_blackjack_graph(g))

compile_program(g, node, is_side_effect, compile_outcome) ==
    LET c1 == << <<"ui_graph_to_blackjack_graph">> >>
        Extracted(program, calls, e) ==
            IF e.status # "Ok"
            THEN [status |-> e.status, error |-> e.error, calls |-> calls]
            ELSE [status |-> "Ok", program |-> program, params |-> e.params,
                  calls |-> calls]
        Compiled(t, final_node, c) ==
            IF c.status # "Ok"
            THEN [status |-> "Err", error |-> c.error,
                  calls |-> Append(c1, <<"compile_graph", final_node, is_side_effect>>)]
            ELSE Extracted(c.program,
                           c1 \o << <<"compile_graph", final_node, is_side_effect>>,
                                    <<"extract_graph_params">> >>,
                           extract_graph_params(g, t.mapping, c.program))
        Translated(t) ==
            IF t.status # "Ok"
            THEN [status |-> t.status, error |-> t.error, calls |-> c1]
            ELSE IF ~MappingHasNode(t.mapping, node)
            THEN [status |-> "Panic", error |-> "mapping[node]", calls |-> c1]
            ELSE Compiled(t, MappingToBjk(t.mapping, node),
                          compile_graph(t.bjk_graph, MappingToBjk(t.mapping, node),
                                        is_side_effect, compile_outcome))
    IN Translated(ui_graph_to_blackjack_graph(g))

\* What run_program can return.
RunError ==
    [status |-> "Err", error |-> "RuntimeError"]

RunOk(thing) ==
    [status |-> "Ok", thing |-> thing]

\* run_active_node: the Result<String> and the renderable_thing it leaves.
run_active_node_ClearsOnError(thing, g, active, compile_outcome, run_outcome) ==
    LET Ran(cp) ==
            IF cp.status # "Ok"
            THEN [status |-> cp.status, error |-> cp.error,
                  renderable_thing |-> None, calls |-> cp.calls]
            ELSE IF run_outcome.status # "Ok"
            THEN [status |-> "Err", error |-> run_outcome.error,
                  renderable_thing |-> None,
                  calls |-> Append(cp.calls, <<"run_program">>)]
            ELSE [status |-> "Ok", code |-> cp.program.lua_program,
                  renderable_thing |-> Some(run_outcome.thing),
                  calls |-> Append(cp.calls, <<"run_program">>)]
    IN IF active.some
       THEN Ran(compile_program(g, active.val, FALSE, compile_outcome))
       ELSE [status |-> "Ok", code |-> <<>>, renderable_thing |-> None, calls |-> <<>>]

run_active_node_KeepsWhenInactive(thing, g, active, compile_outcome, run_outcome) ==
    LET Ran(cp) ==
            IF cp.status # "Ok"
            THEN [status |-> cp.status, error |-> cp.error,
                  renderable_thing |-> thing, calls |-> cp.calls]
            ELSE IF run_outcome.status # "Ok"
            THEN [status |-> "Err", error |-> run_outcome.error,
                  renderable_thing |-> thing,
                  calls |-> Append(cp.calls, <<"run_program">>)]
            ELSE [status |-> "Ok", code |-> cp.program.lua_program,
                  renderable_thing |-> Some(run_outcome.thing),
                  calls |-> Append(cp.calls, <<"run_program">>)]
    IN IF active.some
       THEN Ran(compile_program(g, active.val, FALSE, compile_outcome))
       ELSE [status |-> "Ok", code |-> <<>>, renderable_thing |-> thing, calls |-> <<>>]

run_active_node_IgnoresRunError(thing, g, active, compile_outcome, run_outcome) ==
    LET Ran(cp) ==
            IF cp.status # "Ok"
            THEN [status |-> cp.status, error |-> cp.error,
                  renderable_thing |-> thing, calls |-> cp.calls]
            ELSE [status |-> "Ok", code |-> cp.program.lua_program,
                  renderable_thing |-> IF run_outcome.status = "Ok"
                                       THEN Some(run_outcome.thing) ELSE thing,
                  calls |-> Append(cp.calls, <<"run_program">>)]
    IN IF active.some
       THEN Ran(compile_program(g, active.val, FALSE, compile_outcome))
       ELSE [status |-> "Ok", code |-> <<>>, renderable_thing |-> None, calls |-> <<>>]

run_active_node(thing, g, active, compile_outcome, run_outcome) ==
    LET Ran(cp) ==
            IF cp.status # "Ok"
            THEN [status |-> cp.status, error |-> cp.error,
                  renderable_thing |-> thing, calls |-> cp.calls]
            ELSE IF run_outcome.status # "Ok"
            THEN [status |-> "Err", error |-> run_outcome.error,
                  renderable_thing |-> thing,
                  calls |-> Append(cp.calls, <<"run_program">>)]
            ELSE [status |-> "Ok", code |-> cp.program.lua_program,
                  renderable_thing |-> Some(run_outcome.thing),
                  calls |-> Append(cp.calls, <<"run_program">>)]
    IN IF active.some
       THEN Ran(compile_program(g, active.val, FALSE, compile_outcome))
       ELSE [status |-> "Ok", code |-> <<>>, renderable_thing |-> None, calls |-> <<>>]

\* custom_state.run_side_effect.take(): the value taken and the slot left.
take_Peeks(slot) ==
    [taken |-> slot, left |-> slot]

take(slot) ==
    [taken |-> slot, left |-> None]

\* run_side_effects: the Result<()> and the slot it leaves.
run_side_effects_RetriesOnError(slot, g, compile_outcome, run_ok) ==
    LET Ran(taken, left, cp) ==
            IF cp.status # "Ok"
            THEN [status |-> cp.status, error |-> cp.error,
                  run_side_effect |-> taken, attempted |-> TRUE, calls |-> cp.calls]
            ELSE IF ~run_ok
            THEN [status |-> "Err", error |-> "RuntimeError",
                  run_side_effect |-> taken, attempted |-> TRUE,
                  calls |-> Append(cp.calls, <<"run_program_side_effects">>)]
            ELSE [status |-> "Ok",
                  run_side_effect |-> left, attempted |-> TRUE,
                  calls |-> Append(cp.calls, <<"run_program_side_effects">>)]
        Taken(tk) ==
            IF tk.taken.some
            THEN Ran(tk.taken, tk.left,
                     compile_program(g, tk.taken.val, TRUE, compile_outcome))
            ELSE [status |-> "Ok", run_side_effect |-> tk.left,
                  attempted |-> FALSE, calls |-> <<>>]
    IN Taken(take(slot))

run_side_effects(slot, g, compile_outcome, run_ok) ==
    LET Ran(left, cp) ==
            IF cp.status # "Ok"
            THEN [status |-> cp.status, error |-> cp.error,
                  run_side_effect |-> left, attempted |-> TRUE, calls |-> cp.calls]
            ELSE IF ~run_ok
            THEN [status |-> "Err", error |-> "RuntimeError",
                  run_side_effect |-> left, attempted |-> TRUE,
                  calls |-> Append(cp.calls, <<"run_program_side_effects">>)]
            ELSE [status |-> "Ok",
                  run_side_effect |-> left, attempted |-> TRUE,
                  calls |-> Append(cp.calls, <<"run_program_side_effects">>)]
        Taken(tk) ==
            IF tk.taken.some
            THEN Ran(tk.left, compile_program(g, tk.taken.val, TRUE, compile_outcome))
            ELSE [status |-> "Ok", run_side_effect |-> tk.left,
                  attempted |-> FALSE, calls |-> <<>>]
    IN Taken(take(slot))

StatusError(r) ==
    IF r.status = "Ok" THEN "" ELSE r.error

\* render_ctx.clear_objects()
clear_objects_KeepsObjects(objects) ==
    objects

clear_objects(objects) ==
    <<>>

\* self.build_and_render_mesh(render_ctx, viewport_settings), called on the
\* renderable_thing the active-node step a left in self.
RenderStage_OnlyOnSuccess(a, viewport_settings) ==
    IF a.status = "Ok"
    THEN build_and_render_mesh(a.renderable_thing, viewport_settings)
    ELSE [status |-> "Ok", generated |-> <<>>, uploads |-> <<>>]

RenderStage(a, viewport_settings) ==
    build_and_render_mesh(a.renderable_thing, viewport_settings)

\* One call of update.  returned is FALSE when a panic unwound out of it; the
\* other fields are what it left behind and what it showed:
\*   actions  the Vec<AppRootAction> returned
\*   overlay  the errors given to paint_errors, in order
\*   diag     the errors printed with eprintln!
\*   objects  the objects registered on render_ctx
\*   calls    the calls made, in order
update(thing, g, active, slot, old_objects, viewport_settings, c1, r1, c2, r2) ==
    LET cleared == clear_objects(old_objects)
        Rendered(a, s, b) ==
            [returned |-> TRUE, renderable_thing |-> a.renderable_thing,
             run_side_effect |-> s.run_side_effect,
             objects |-> cleared \o b.uploads,
             actions |-> IF a.status = "Ok"
                         THEN << <<"SetCodeViewerCode", a.code>> >>
                         ELSE <<>>,
             overlay |-> (IF a.status = "Err" THEN <<a.error>> ELSE <<>>)
                         \o (IF b.status = "Err" THEN <<b.error>> ELSE <<>>),
             diag |-> IF s.status = "Err" THEN <<s.error>> ELSE <<>>,
             calls |-> << <<"clear_objects">>, <<"run_active_node">> >> \o a.calls
                       \o << <<"run_side_effects">> >> \o s.calls
                       \o << <<"build_and_render_mesh">> >> \o b.uploads,
             active_status |-> a.status, active_error |-> StatusError(a),
             side_status |-> s.status, side_attempted |-> s.attempted,
             render_status |-> b.status]
        SideDone(a, s) ==
            IF s.status = "Panic"
            THEN [returned |-> FALSE, renderable_thing |-> a.renderable_thing,
                  run_side_effect |-> s.run_side_effect, objects |-> cleared,
                  actions |-> <<>>,
                  overlay |-> IF a.status = "Err" THEN <<a.error>> ELSE <<>>,
                  diag |-> <<>>,
                  calls |-> << <<"clear_objects">>, <<"run_active_node">> >> \o a.calls
                            \o << <<"run_side_effects">> >> \o s.calls,
                  active_status |-> a.status, active_error |-> StatusError(a),
                  side_status |-> s.status, side_attempted |-> s.attempted,
                  render_status |-> "NotRun"]
            ELSE Rendered(a, s, RenderStage(a, viewport_settings))
        ActiveDone(a) ==
            IF a.status = "Panic"
            THEN [returned |-> FALSE, renderable_thing |-> a.renderable_thing,
                  run_side_effect |-> slot, objects |-> cleared,
                  actions |-> <<>>, overlay |-> <<>>, diag |-> <<>>,
                  calls |-> << <<"clear_objects">>, <<"run_active_node">> >> \o a.calls,
                  active_status |-> a.status, active_error |-> StatusError(a),
                  side_status |-> "NotRun", side_attempted |-> FALSE,
                  render_status |-> "NotRun"]
            ELSE SideDone(a, run_side_effects(slot, g, c2, r2))
    IN ActiveDone(run_active_node(thing, g, active, c1, r1))

\* --------------------------------------------------- inputs of the cycles
\* The graphs the editor hands to update: empty; one cube in the second slot
\* (the first node was deleted); cube into bevel; a node with a duplicate
\* input name; a connection into a socket of a node that is gone.

Nodes1(shape) ==
    [n \in {1} |-> shape]

Nodes2(shape) ==
    [n \in {2} |-> shape]

Nodes12(shape1, shape2) ==
    [n \in {1, 2} |-> IF n = 1 THEN shape1 ELSE shape2]

ShapeNamed(op_name) ==
    CHOOSE sh \in Shapes : sh.op_name = op_name

Conn(input, output) ==
    [i \in {input} |-> output]

EmptyGraph ==
    MkGraph(EmptyMap, EmptyMap)

CubeGraph ==
    MkGraph(Nodes2(ShapeNamed("cube")), EmptyMap)

BevelGraph ==
    MkGraph(Nodes12(ShapeNamed("cube"), ShapeNamed("bevel")), Conn(21, 11))

DupGraph ==
    MkGraph(Nodes1(ShapeNamed("dup_in")), EmptyMap)

DanglingGraph ==
    MkGraph(Nodes1(ShapeNamed("cube")), Conn(21, 11))

OrchGraphs ==
    {EmptyGraph, CubeGraph, BevelGraph, DupGraph, DanglingGraph}

\* The viewport settings update is called with.
OrchSettings ==
    { [face_mode |-> "Real", edge_mode |-> "HalfEdge"],
      [face_mode |-> "None", edge_mode |-> "None"] }

\* The things run_program returns.
OrchThings ==
    { HalfEdgeMesh(TRUE, 3, 1, TRUE),
      HalfEdgeMesh(FALSE, 3, 1, FALSE),
      HeightMap(1) }

RunOutcomes ==
    {RunError} \cup {RunOk(t) : t \in OrchThings}

OptionNodes ==
    {None} \cup {Some(n) : n \in NodeIds}

\* ------------------------------------------------------------------ state

VARIABLES
    graph,             \* editor_state.graph
    active_node,       \* custom_state.active_node
    run_side_effect,   \* custom_state.run_side_effect
    renderable_thing,  \* ApplicationContext.renderable_thing
    objects,           \* the objects registered on render_ctx
    pc,                \* "running", or "aborted" once a panic has unwound
    fresh,             \* a side effect was requested since the last attempt
    cycle,             \* what the update call just made did (NoCycle otherwise)
    tr,                \* the value ui_graph_to_blackjack_graph returned, if called
    program,           \* the CompiledProgram handed to extract_graph_params
    params,            \* the mapping extract_graph_params was given and its result
    draw_settings,     \* the Viewport3dSettings handed to build_and_render_mesh
    rendered           \* what build_and_render_mesh did, if called on its own

vars ==
    <<graph, active_node, run_side_effect, renderable_thing, objects, pc, fresh, cycle,
      tr, program, params, draw_settings, rendered>>

\* What the functions run on their own read and write.
pure_vars ==
    <<tr, program, params, draw_settings, rendered>>

orch_vars ==
    <<graph, active_node, run_side_effect, renderable_thing, objects, pc, fresh, cycle>>

NoCycle ==
    [ran |-> FALSE]

\* ApplicationContext::new(), an empty editor, nothing drawn.
InitOrch ==
    /\ graph = EmptyGraph
    /\ active_node = None
    /\ run_side_effect = None
    /\ renderable_thing = None
    /\ objects = <<>>
    /\ pc = "running"
    /\ fresh = FALSE
    /\ cycle = NoCycle

\* No program was compiled and nothing was drawn outside update.
NoProgram ==
    [external_parameters |-> <<>>]

DefaultSettings ==
    [face_mode |-> "Real", edge_mode |-> "None"]

Init ==
    /\ InitOrch
    /\ tr = None
    /\ program = NoProgram
    /\ params = None
    /\ draw_settings = DefaultSettings
    /\ rendered = None

\* The editor changes the graph between two frames.
EditGraph ==
    /\ pc = "running"
    /\ \E g \in OrchGraphs \ {graph} : graph' = g
    /\ cycle' = NoCycle
    /\ UNCHANGED <<active_node, run_side_effect, renderable_thing, objects, pc, fresh, pure_vars>>

\* The user picks, or drops, the node to preview.
SetActiveNode ==
    /\ pc = "running"
    /\ \E a \in OptionNodes \ {active_node} : active_node' = a
    /\ cycle' = NoCycle
    /\ UNCHANGED <<graph, run_side_effect, renderable_thing, objects, pc, fresh, pure_vars>>

\* The user asks for a node to be run for its side effect.
RequestSideEffect ==
    /\ pc = "running"
    /\ \E n \in NodeIds : run_side_effect' = Some(n)
    /\ fresh' = TRUE
    /\ cycle' = NoCycle
    /\ UNCHANGED <<graph, active_node, renderable_thing, objects, pc, pure_vars>>

\* One frame: update runs to its end, or to the panic that ends the program.
Update ==
    /\ pc = "running"
    /\ \E viewport_settings \in OrchSettings,
          c1 \in IF active_node.some THEN CompileOutcomes ELSE {"compiled"},
          r1 \in IF active_node.some THEN RunOutcomes ELSE {RunError},
          c2 \in IF run_side_effect.some THEN CompileOutcomes ELSE {"compiled"},
          r2 \in IF run_side_effect.some THEN BOOLEAN ELSE {TRUE} :
          \E u \in {update(renderable_thing, graph, active_node, run_side_effect,
                           objects, viewport_settings, c1, r1, c2, r2)} :
             /\ renderable_thing' = u.renderable_thing
             /\ run_side_effect' = u.run_side_effect
             /\ objects' = u.objects
             /\ pc' = IF u.returned THEN "running" ELSE "aborted"
             /\ fresh' = (fresh /\ ~u.side_attempted)
             /\ cycle' = [ran |-> TRUE, returned |-> u.returned,
                          active |-> active_node, pending |-> run_side_effect,
                          before |-> renderable_thing,
                          objects_before |-> objects,
                          viewport_settings |-> viewport_settings,
                          compile_outcome |-> c1,
                          produced |-> IF r1.status = "Ok" THEN Some(r1.thing) ELSE None,
                          actions |-> u.actions, overlay |-> u.overlay,
                          diag |-> u.diag, calls |-> u.calls,
                          active_status |-> u.active_status,
                          active_error |-> u.active_error,
                          side_status |-> u.side_status,
                          side_attempted |-> u.side_attempted,
                          render_status |-> u.render_status]
    /\ UNCHANGED <<graph, active_node, pure_vars>>

Next ==
    \/ EditGraph
    \/ SetActiveNode
    \/ RequestSideEffect
    \/ Update

Spec ==
    Init /\ [][Next]_vars

\* ------------------------------------------------- translation, on its own

InitT ==
    /\ graph \in GraphSet
    /\ active_node = None
    /\ run_side_effect = None
    /\ renderable_thing = None
    /\ objects = <<>>
    /\ pc = "running"
    /\ fresh = FALSE
    /\ cycle = NoCycle
    /\ tr = None
    /\ program = NoProgram
    /\ params = None
    /\ draw_settings = DefaultSettings
    /\ rendered = None

Translate ==
    /\ tr = None
    /\ tr' = Some(ui_graph_to_blackjack_graph(graph))
    /\ UNCHANGED <<orch_vars, program, params, draw_settings, rendered>>

NextT ==
    Translate

SpecT ==
    InitT /\ [][NextT]_vars

\* ------------------------------------------ parameter extraction, on its own
\* extract_graph_params is given the graph, a program, and the mapping of a
\* translation: of this graph, or of the graph as it was before an edit.

ParamNames ==
    {"size", "amount", "removed"}

Addrs ==
    {"p0", "p1"}

Descriptors ==
    [node_id : NodeIds, param_name : ParamNames, addr : Addrs]

Programs ==
    {[external_parameters |-> defs] :
        defs \in UNION {[1..n -> Descriptors] : n \in 0..MaxDefs}}

ExtractGraphs ==
    {EmptyGraph, CubeGraph, BevelGraph, DupGraph}

InitP ==
    /\ graph \in ExtractGraphs
    /\ active_node = None
    /\ run_side_effect = None
    /\ renderable_thing = None
    /\ objects = <<>>
    /\ pc = "running"
    /\ fresh = FALSE
    /\ cycle = NoCycle
    /\ tr = None
    /\ draw_settings = DefaultSettings
    /\ rendered = None
    /\ params = None
    /\ program \in Programs

Extract ==
    /\ params = None
    /\ \E snapshot \in ExtractGraphs :
          \E t \in {ui_graph_to_blackjack_graph(snapshot)} :
             /\ t.status = "Ok"
             /\ params' = Some([mapping |-> t.mapping,
                                result |-> extract_graph_params(graph, t.mapping, program)])
    /\ UNCHANGED <<orch_vars, tr, program, draw_settings, rendered>>

NextP ==
    Extract

SpecP ==
    InitP /\ [][NextP]_vars

\* --------------------------------------- build_and_render_mesh, on its own

\* The meshes run_program can leave: a face takes three vertices.
Meshes ==
    {HalfEdgeMesh(smooth, verts, faces, sound) :
        smooth \in BOOLEAN, verts \in 0..MaxVerts, faces \in 0..MaxFaces,
        sound \in BOOLEAN}

RenderThings ==
    {None} \cup {Some(m) : m \in {x \in Meshes : x.faces > 0 => x.verts >= 3}}
           \cup {Some(HeightMap(cells)) : cells \in 0..MaxCells}

InitR ==
    /\ graph = EmptyGraph
    /\ active_node = None
    /\ run_side_effect = None
    /\ renderable_thing \in RenderThings
    /\ objects = <<>>
    /\ pc = "running"
    /\ fresh = FALSE
    /\ cycle = NoCycle
    /\ tr = None
    /\ program = NoProgram
    /\ params = None
    /\ draw_settings \in Viewport3dSettings
    /\ rendered = None

Render ==
    /\ rendered = None
    /\ rendered' = Some(build_and_render_mesh(renderable_thing, draw_settings))
    /\ UNCHANGED <<orch_vars, tr, program, params, draw_settings>>

NextR ==
    Render

SpecR ==
    InitR /\ [][NextR]_vars

\* ------------------------------------------------------------ properties

\* The step just taken was a call of update that returned to its caller.
Returned ==
    cycle.ran /\ cycle.returned

HasSetCode(actions) ==
    \E k \in 1..Len(actions) : actions[k][1] = "SetCodeViewerCode"

\* Whether every stage of the active-node run of the last cycle succeeded,
\* read off the inputs of the cycle: the graph translates, the active node
\* is in the mapping, the compiler accepted the graph and every descriptor
\* of the program resolves, and the runtime returned a renderable thing.
ActiveStagesSucceeded ==
    LET t == ui_graph_to_blackjack_graph(graph)
    IN /\ t.status = "Ok"
       /\ MappingHasNode(t.mapping, cycle.active.val)
       /\ cycle.compile_outcome = "compiled"
       /\ cycle.produced.some

\* The text of the program compiled for the active node of the last cycle.
ActiveProgramText ==
    ProgramText(MappingToBjk(ui_graph_to_blackjack_graph(graph).mapping, cycle.active.val),
                FALSE)

\* C1: when an active node is designated and a stage of its run fails, update
\* leaves the held artifact as it found it; and nothing but update writes the
\* artifact, so over consecutive failing cycles it stays the one the last
\* successful cycle produced.
C1_FailedRunKeepsArtifact ==
    [][ /\ (cycle'.ran /\ cycle'.active.some /\ cycle'.active_status # "Ok")
            => renderable_thing' = renderable_thing
        /\ ~cycle'.ran => renderable_thing' = renderable_thing ]_vars

\* A cycle whose run failed in the runtime while an artifact was held.
C1_Witness ==
    /\ Returned
    /\ cycle.active.some
    /\ cycle.active_status = "Err"
    /\ cycle.active_error = "RuntimeError"
    /\ cycle.before.some
    /\ renderable_thing = cycle.before

\* C2: after a cycle with no active node designated the held artifact is
\* empty, whatever was held before and however the side-effect run ended.
C2_NoActiveNodeClearsArtifact ==
    (cycle.ran /\ ~cycle.active.some) => renderable_thing = None

\* An artifact was held, no node is active, the side-effect run failed.
C2_Witness ==
    /\ Returned
    /\ ~cycle.active.some
    /\ cycle.before.some
    /\ cycle.side_status = "Err"
    /\ renderable_thing = None

\* C3: with an active node designated, the actions update returns hold a
\* set-code action exactly when every stage succeeded; it then carries the
\* text of the compiled program and the held artifact is the one the
\* execution produced.
C3_SetCodeIffSuccess ==
    (Returned /\ cycle.active.some) =>
        /\ HasSetCode(cycle.actions) <=> ActiveStagesSucceeded
        /\ ActiveStagesSucceeded =>
              /\ cycle.actions = << <<"SetCodeViewerCode", ActiveProgramText>> >>
              /\ renderable_thing = cycle.produced

\* A successful run replaced a different artifact; the compiler node of the
\* program is not the UI node's id.
C3_Witness ==
    /\ Returned
    /\ cycle.active = Some(2)
    /\ cycle.actions = << <<"SetCodeViewerCode", ProgramText(1, FALSE)>> >>
    /\ cycle.before.some
    /\ cycle.before # renderable_thing
    /\ renderable_thing = cycle.produced

C5_AtMostOneAttemptPerRequest ==
    [][ (cycle'.ran /\ cycle'.side_attempted) => (fresh /\ ~fresh') ]_vars

\* A request was attempted, failed, and is gone.
C5_Witness ==
    /\ Returned
    /\ cycle.side_attempted
    /\ cycle.side_status = "Err"
    /\ ~fresh
    /\ run_side_effect = None

\* C6: no failure of an active-node or side-effect run aborts the cycle:
\* update always returns, having gone through the geometry-extraction step.
C6_UpdateAlwaysCompletes ==
    cycle.ran => (cycle.returned /\ cycle.render_status # "NotRun")

NodeLists(g, n, id) ==
    \E k \in 1..Len(g.nodes[n].inputs) : g.nodes[n].inputs[k][2] = id

NodeListsOutput(g, n, id) ==
    \E k \in 1..Len(g.nodes[n].outputs) : g.nodes[n].outputs[k][2] = id

InputRegistered(g, id) ==
    /\ id \in DOMAIN g.inputs
    /\ g.inputs[id].node \in DOMAIN g.nodes
    /\ NodeLists(g, g.inputs[id].node, id)

OutputRegistered(g, id) ==
    /\ id \in DOMAIN g.outputs
    /\ g.outputs[id].node \in DOMAIN g.nodes
    /\ NodeListsOutput(g, g.outputs[id].node, id)

DuplicatePortName(g) ==
    \E n \in DOMAIN g.nodes :
        \/ \E j, k \in 1..Len(g.nodes[n].inputs) :
              j # k /\ g.nodes[n].inputs[j][1] = g.nodes[n].inputs[k][1]
        \/ \E j, k \in 1..Len(g.nodes[n].outputs) :
              j # k /\ g.nodes[n].outputs[j][1] = g.nodes[n].outputs[k][1]

UnregisteredSocket(g) ==
    \E i \in DOMAIN g.connections :
        ~InputRegistered(g, i) \/ ~OutputRegistered(g, g.connections[i])

TypeMismatch(g) ==
    \E i \in DOMAIN g.connections :
        /\ InputRegistered(g, i)
        /\ OutputRegistered(g, g.connections[i])
        /\ g.inputs[i].typ # g.outputs[g.connections[i]].typ

StructurallyValid(g) ==
    ~DuplicatePortName(g) /\ ~UnregisteredSocket(g) /\ ~TypeMismatch(g)

\* C8: a graph with a structural violation (a duplicate port name, a
\* connection whose socket was never registered, a type mismatch) translates
\* to a GraphConstructionError and to no compiler graph or mapping.
C8_ViolationIsAnError ==
    (tr.some /\ ~StructurallyValid(graph)) =>
        /\ tr.val.status = "Err"
        /\ tr.val.error = "GraphConstructionError"
        /\ "bjk_graph" \notin DOMAIN tr.val
        /\ "mapping" \notin DOMAIN tr.val

\* C9: a structurally valid graph of N nodes and C connections translates
\* to a compiler graph of N nodes and C connections.
C9_NodeAndConnectionCount ==
    (tr.some /\ StructurallyValid(graph)) =>
        /\ tr.val.status = "Ok"
        /\ Len(tr.val.bjk_graph.nodes) = Cardinality(DOMAIN graph.nodes)
        /\ Cardinality(tr.val.bjk_graph.connections)
              = Cardinality(DOMAIN graph.connections)

\* Two nodes and the connection between them were translated.
C9_Witness ==
    /\ tr.some
    /\ StructurallyValid(graph)
    /\ Cardinality(DOMAIN graph.nodes) = 2
    /\ Cardinality(DOMAIN graph.connections) = 1
    /\ Len(tr.val.bjk_graph.nodes) = 2
    /\ Cardinality(tr.val.bjk_graph.connections) = 1

\* C10: the mapping of a successful translation is a bijection between the
\* UI nodes of the graph and the compiler nodes: total, one to one, and a
\* lookup one way and back returns the node it started from.
C10_MappingBijection ==
    (tr.some /\ tr.val.status = "Ok") =>
        LET m == tr.val.mapping
            ui == DOMAIN graph.nodes
            bjk == 1..Len(tr.val.bjk_graph.nodes)
        IN /\ \A u \in ui : MappingHasNode(m, u) /\ MappingToBjk(m, u) \in bjk
           /\ \A b \in bjk : MappingHasBjk(m, b) /\ MappingToNode(m, b) \in ui
           /\ \A u, v \in ui : u # v => MappingToBjk(m, u) # MappingToBjk(m, v)
           /\ \A u \in ui : MappingToNode(m, MappingToBjk(m, u)) = u
           /\ \A b \in bjk : MappingToBjk(m, MappingToNode(m, b)) = b

\* A graph whose only node sits in the second slot: UI node 2 is compiler
\* node 1, and back.
C10_Witness ==
    /\ tr.some
    /\ tr.val.status = "Ok"
    /\ DOMAIN graph.nodes = {2}
    /\ MappingToBjk(tr.val.mapping, 2) = 1
    /\ MappingToNode(tr.val.mapping, 1) = 2

\* --- descriptors, read off the graph and the mapping alone

\* Descriptor d names a compiler node the mapping knows, whose UI node is in
\* the graph and has an input of the name.
Resolves(g, m, d) ==
    /\ MappingHasBjk(m, d.node_id)
    /\ MappingToNode(m, d.node_id) \in DOMAIN g.nodes
    /\ \E k \in 1..Len(g.nodes[MappingToNode(m, d.node_id)].inputs) :
          g.nodes[MappingToNode(m, d.node_id)].inputs[k][1] = d.param_name

AllResolve(g, m, defs) ==
    \A k \in 1..Len(defs) : Resolves(g, m, defs[k])

\* The current values of the inputs named d.param_name on d's UI node.
NamedValues(g, m, d) ==
    LET node == g.nodes[MappingToNode(m, d.node_id)]
    IN {g.inputs[node.inputs[k][2]].value :
          k \in {j \in 1..Len(node.inputs) : node.inputs[j][1] = d.param_name}}

\* The last descriptor of defs whose target address is addr.
LastFor(defs, addr) ==
    defs[CHOOSE k \in 1..Len(defs) :
            /\ defs[k].addr = addr
            /\ \A j \in (k + 1)..Len(defs) : defs[j].addr # addr]

\* C11: when every descriptor of the program resolves, extraction returns a
\* table whose keys are exactly the descriptors' target addresses, and whose
\* value at an address is the current value of the input named by the last
\* descriptor with that address, on the UI node its compiler node maps back to.
C11_TableOfResolvedDescriptors ==
    (params.some /\ AllResolve(graph, params.val.mapping, program.external_parameters)) =>
        LET defs == program.external_parameters
            result == params.val.result
        IN /\ result.status = "Ok"
           /\ DOMAIN result.params = {defs[k].addr : k \in 1..Len(defs)}
           /\ \A addr \in DOMAIN result.params :
                 result.params[addr]
                    \in NamedValues(graph, params.val.mapping, LastFor(defs, addr))

\* Two descriptors of different nodes share an address; the table holds the
\* value of the second.
C11_Witness ==
    /\ params.some
    /\ DOMAIN graph.nodes = {1, 2}
    /\ program.external_parameters =
          << [node_id |-> 1, param_name |-> "size", addr |-> "p0"],
             [node_id |-> 2, param_name |-> "amount", addr |-> "p0"] >>
    /\ params.val.result.status = "Ok"
    /\ params.val.result.params = [a \in {"p0"} |-> WidgetValue(22)]

\* C12: when a descriptor does not resolve (its compiler node is not in the
\* mapping, its UI node is not in the graph, or the node has no input of the
\* name), extraction returns a ParameterResolutionError and no table.
C12_UnresolvedIsAnError ==
    (params.some /\ ~AllResolve(graph, params.val.mapping, program.external_parameters)) =>
        /\ params.val.result.status = "Err"
        /\ params.val.result.error = "ParameterResolutionError"
        /\ "params" \notin DOMAIN params.val.result

\* --- buffer sets, read off the result of build_and_render_mesh

Kinds(generated) ==
    {generated[k][1] : k \in 1..Len(generated)}

\* The uploads that forwarding the non-empty sets of generated makes.
UploadOf(kind) ==
    CASE kind = "triangle" -> "add_base_mesh"
      [] kind = "overlay" -> "add_overlay_mesh"
      [] kind = "line" -> "add_wireframe"
      [] kind = "point" -> "add_point_cloud"

NonEmpty(generated) ==
    SelectSeq(generated, LAMBDA b : b[2] # 0)

ForwardsNonEmpty(r) ==
    /\ Len(r.uploads) = Len(NonEmpty(r.generated))
    /\ \A k \in 1..Len(r.uploads) :
          /\ r.uploads[k][1] = UploadOf(NonEmpty(r.generated)[k][1])
          /\ r.uploads[k][2] = NonEmpty(r.generated)[k][2]

IsMesh(thing) ==
    thing.some /\ thing.val.kind = "HalfEdgeMesh"

IsHeightMap(thing) ==
    thing.some /\ thing.val.kind = "HeightMap"

\* No generator the settings select fails on the mesh.
GenerationSucceeds(mesh, settings) ==
    mesh.sound \/ (settings.face_mode = "None" /\ settings.edge_mode = "None")

\* C13: for a half-edge mesh whose buffer generation succeeds, the buffer
\* sets produced are, once each: overlay and point always, triangle exactly
\* when face_mode is not None, line exactly when edge_mode is not None; and
\* the non-empty ones of these are what is forwarded.
C13_MeshBufferKinds ==
    (rendered.some /\ IsMesh(renderable_thing)
        /\ GenerationSucceeds(renderable_thing.val, draw_settings)) =>
        LET r == rendered.val
        IN /\ r.status = "Ok"
           /\ Kinds(r.generated) =
                 {"overlay", "point"}
                 \cup (IF draw_settings.face_mode # "None" THEN {"triangle"} ELSE {})
                 \cup (IF draw_settings.edge_mode # "None" THEN {"line"} ELSE {})
           /\ Len(r.generated) = Cardinality(Kinds(r.generated))
           /\ ForwardsNonEmpty(r)

\* Both modes are None: the overlay and point sets, and nothing else.
C13_Witness ==
    /\ rendered.some
    /\ IsMesh(renderable_thing)
    /\ draw_settings = [face_mode |-> "None", edge_mode |-> "None"]
    /\ renderable_thing.val.faces > 0
    /\ Kinds(rendered.val.generated) = {"overlay", "point"}
    /\ Len(rendered.val.uploads) = 2

\* C14: extraction never fails as a whole: when a generator of the triangle
\* or line buffers fails on a mesh, the call still succeeds and the overlay
\* and point buffers are still generated in the same pass.
C14_ExtractionNeverFails ==
    (rendered.some /\ IsMesh(renderable_thing)) =>
        /\ rendered.val.status = "Ok"
        /\ {"overlay", "point"} \subseteq Kinds(rendered.val.generated)

\* C15: no upload is made with an empty position list, whatever the thing
\* and the settings; with no thing held no upload is made.
C15_NoEmptyUpload ==
    rendered.some =>
        /\ \A k \in 1..Len(rendered.val.uploads) : rendered.val.uploads[k][2] # 0
        /\ ~renderable_thing.some => rendered.val.uploads = <<>>

\* A mesh of vertices and no faces: its empty triangle, overlay and line
\* sets were generated and held back, the points were uploaded.
C15_Witness ==
    /\ rendered.some
    /\ IsMesh(renderable_thing)
    /\ renderable_thing.val.faces = 0
    /\ Kinds(rendered.val.generated) = {"triangle", "overlay", "line", "point"}
    /\ Len(rendered.val.uploads) = 1
    /\ rendered.val.uploads[1][1] = "add_point_cloud"

\* C16: for a height map exactly one triangle buffer set is produced, and
\* no overlay, line or point set, whatever face_mode and edge_mode are; it
\* is forwarded as the base mesh when it is not empty.
C16_HeightMapOneTriangleSet ==
    (rendered.some /\ IsHeightMap(renderable_thing)) =>
        LET r == rendered.val
        IN /\ r.status = "Ok"
           /\ Len(r.generated) = 1
           /\ r.generated[1][1] = "triangle"
           /\ ForwardsNonEmpty(r)

\* A height map drawn with both modes None.
C16_Witness ==
    /\ rendered.some
    /\ IsHeightMap(renderable_thing)
    /\ draw_settings = [face_mode |-> "None", edge_mode |-> "None"]
    /\ Len(rendered.val.generated) = 1
    /\ Len(rendered.val.uploads) = 1
    /\ rendered.val.uploads[1][1] = "add_base_mesh"

\* --- the calls a translation made on the compiler graph

Count(calls, name) ==
    Cardinality({k \in 1..Len(calls) : calls[k] = name})

RECURSIVE SumOver(_, _)
SumOver(f, S) ==
    IF S = {} THEN 0
    ELSE LET x == CHOOSE y \in S : TRUE
         IN f[x] + SumOver(f, S \ {x})

\* C18: in the calls a translation makes on the compiler graph, nothing but
\* add_connection follows an add_connection; and when the first connection
\* is registered, every node of the UI graph has been created and every
\* input and output socket of every node registered.
C18_RegistrationBeforeConnections ==
    tr.some =>
        LET calls == tr.val.calls
        IN /\ \A j, k \in 1..Len(calls) :
                 (j < k /\ calls[j] = "add_connection") => calls[k] = "add_connection"
           /\ Count(calls, "add_connection") > 0 =>
                 /\ Count(calls, "add_node") = Cardinality(DOMAIN graph.nodes)
                 /\ Count(calls, "add_input") =
                       SumOver([n \in DOMAIN graph.nodes |-> Len(graph.nodes[n].inputs)],
                               DOMAIN graph.nodes)
                 /\ Count(calls, "add_output") =
                       SumOver([n \in DOMAIN graph.nodes |-> Len(graph.nodes[n].outputs)],
                               DOMAIN graph.nodes)

\* Two nodes were created, then the connection of the first node to itself
\* was registered.
C18_Witness ==
    /\ tr.some
    /\ tr.val.status = "Ok"
    /\ DOMAIN graph.nodes = {1, 2}
    /\ DOMAIN graph.connections = {11}
    /\ graph.connections[11] = 11
    /\ Count(tr.val.calls, "add_node") = 2
    /\ tr.val.calls[Len(tr.val.calls)] = "add_connection"

\* --- what a cycle showed and called

\* C17: the overlay of a cycle holds the failure of its active-node run and
\* nothing else (one error when that run failed, none when it did not); a
\* failure of the side-effect run goes to the diagnostic channel only.
C17_OverlayOnlyActiveFailure ==
    Returned =>
        /\ cycle.overlay = IF cycle.active_status = "Err"
                           THEN <<cycle.active_error>> ELSE <<>>
        /\ cycle.side_status = "Err" <=> cycle.diag # <<>>

CallIndex(calls, name) ==
    CHOOSE k \in 1..Len(calls) : calls[k] = <<name>>

\* C19: every cycle calls clear_objects once, before the active-node run,
\* the side-effect run and any upload; the objects registered when update
\* returns are the uploads of the artifact then held and of nothing else,
\* whatever was registered before.
C19_ClearedOnceAndFirst ==
    cycle.ran =>
        /\ cycle.calls[1] = <<"clear_objects">>
        /\ Count(cycle.calls, <<"clear_objects">>) = 1
        /\ \A k \in 2..Len(cycle.calls) : cycle.calls[k] # <<"clear_objects">>
        /\ cycle.returned =>
              objects = build_and_render_mesh(renderable_thing,
                                              cycle.viewport_settings).uploads
        /\ ~cycle.returned => objects = <<>>

\* Objects of a mesh were registered; the cycle replaced the mesh by a
\* height map and registered the height map's base mesh alone.
C19_Witness ==
    /\ Returned
    /\ Len(cycle.objects_before) > 1
    /\ renderable_thing = Some(HeightMap(1))
    /\ Len(objects) = 1
    /\ objects[1][1] = "add_base_mesh"

\* The held artifact as the active-node step of the last cycle left it.
ArtifactAfterActiveStep ==
    IF ~cycle.active.some THEN None
    ELSE IF cycle.active_status = "Ok" THEN cycle.produced
    ELSE cycle.before

\* C20: the side-effect step leaves the held artifact and the returned
\* actions as the active-node step left them, whether it succeeds or fails;
\* every program compiled before run_side_effects is entered is compiled
\* with is_side_effect = false, every one compiled after it with true.
C20_SideEffectFrame ==
    cycle.ran =>
        /\ renderable_thing = ArtifactAfterActiveStep
        /\ cycle.returned =>
              /\ HasSetCode(cycle.actions) <=> cycle.active_status = "Ok"
              /\ Len(cycle.actions) <= 1
        /\ \A k \in 1..Len(cycle.calls) :
              cycle.calls[k][1] = "compile_graph" =>
                 IF cycle.side_status = "NotRun"
                    \/ k < CallIndex(cycle.calls, "run_side_effects")
                 THEN cycle.calls[k][3] = FALSE
                 ELSE cycle.calls[k][3] = TRUE

\* Both programs were compiled; the side-effect run failed in the runtime
\* and the artifact is the one the active-node run produced.
C20_Witness ==
    /\ Returned
    /\ cycle.pending.some
    /\ cycle.side_status = "Err"
    /\ cycle.active_status = "Ok"
    /\ cycle.before # cycle.produced
    /\ renderable_thing = cycle.produced
    /\ HasSetCode(cycle.actions)
    /\ \E j, k \in 1..Len(cycle.calls) :
          /\ j < k
          /\ cycle.calls[j][1] = "compile_graph" /\ cycle.calls[j][3] = FALSE
          /\ cycle.calls[k][1] = "compile_graph" /\ cycle.calls[k][3] = TRUE
          /\ cycle.calls[Len(cycle.calls) - 1] = <<"run_program_side_effects">>

====
